---- MODULE Spec2Model ----
(***************************************************************************)
(* A model of lsst.sconsUtils: installation.py (version and prefix         *)
(* resolution, the directory installer, the ups installer, the install     *)
(* orchestrator) and utils.py (the logger and runExternal).                *)
(*                                                                         *)
(* Python strings are sequences of one-character strings, so that replace, *)
(* the regular expressions and the % formatting are computed character by  *)
(* character.  Python's None is the one-element sequence None, which no    *)
(* string equals.                                                          *)
(***************************************************************************)
EXTENDS Naturals, Integers, Sequences, FiniteSets, Bags, TLC

VARIABLES
    pc,         \* "idle" before the call a behaviour makes, then the position reached
    call,       \* the operation called and its arguments, as given
    env,        \* the SCons environment the call works on
    ret,        \* how the call ended: returned a value, raised, or left the process
    log,        \* the warnings and failures state.log received, in order
    graph,      \* what the call registered with the build tool
    running,    \* the registered targets whose actions the scheduler is executing
    finished,   \* the registered targets whose actions have completed
    fs,         \* the destination tree DirectoryInstaller writes
    state,      \* the state module: state.env['no_eups'] and state.log.traceback
    walk        \* the source directories os.walk has still to yield

vars == <<pc, call, env, ret, log, graph, running, finished, fs, state, walk>>

(***************************************************************************)
(* Bounds.                                                                 *)
(***************************************************************************)
MaxVersionLen == 2

(***************************************************************************)
(* Strings.                                                                *)
(***************************************************************************)
None == <<"None">>

Lower == <<"a","b","c","d","e","f","g","h","i","j","k","l","m",
           "n","o","p","q","r","s","t","u","v","w","x","y","z">>
Upper == <<"A","B","C","D","E","F","G","H","I","J","K","L","M",
           "N","O","P","Q","R","S","T","U","V","W","X","Y","Z">>
Digits == <<"0","1","2","3","4","5","6","7","8","9">>

Range(s) == {s[i] : i \in 1..Len(s)}

\* \w of the re module, on the characters used here
IsWord(ch) == ch \in Range(Lower) \cup Range(Upper) \cup Range(Digits) \cup {"_"}

\* \s of the re module, on the characters used here
IsSpace(ch) == ch \in {" ", "\t"}

\* one character of str.lower()
LowerChar(ch) ==
    IF ch \in Range(Upper)
    THEN Lower[CHOOSE i \in 1..Len(Upper) : Upper[i] = ch]
    ELSE ch

\* str.lower()
lower(s) == [i \in 1..Len(s) |-> LowerChar(s[i])]

\* str.replace(old, new) for one-character old and new
replace(s, old, new) == [i \in 1..Len(s) |-> IF s[i] = old THEN new ELSE s[i]]

\* str.startswith
startswith(s, p) == Len(s) >= Len(p) /\ SubSeq(s, 1, Len(p)) = p

\* str.endswith
endswith(s, p) == Len(s) >= Len(p) /\ SubSeq(s, Len(s) - Len(p) + 1, Len(s)) = p

\* the truth value Python gives a string or None
Truthy(s) == s # None /\ s # <<>>

\* all strings over alphabet of length 0..n
RECURSIVE StringsUpTo(_, _)
StringsUpTo(alphabet, n) ==
    IF n = 0 THEN {<<>>}
    ELSE LET shorter == StringsUpTo(alphabet, n - 1)
         IN  shorter \cup {Append(s, ch) : s \in shorter, ch \in alphabet}

\* os.path.join(a, b) of posixpath
pathjoin(a, b) ==
    IF startswith(b, <<"/">>) THEN b
    ELSE IF a = <<>> \/ endswith(a, <<"/">>) THEN a \o b
    ELSE a \o <<"/">> \o b

Unknown == <<"u","n","k","n","o","w","n">>
UsrLocal == <<"/","u","s","r","/","l","o","c","a","l">>
Cvs == <<"c","v","s">>

(***************************************************************************)
(* Outcomes of a call.                                                     *)
(***************************************************************************)
Return(v) == [kind |-> "return", value |-> v]
Raise(e) == [kind |-> "raise", value |-> <<e>>]
Exit(n) == [kind |-> "exit", value |-> <<n>>]
NotCalled == [kind |-> "none", value |-> None]

(***************************************************************************)
(* utils.Log.  A message is recorded with its level and the place that     *)
(* sent it; Log.info only prints and is not recorded.                      *)
(***************************************************************************)
Message(level, what) == [level |-> level, what |-> what]

\* Log.warn: warnings.warn or a line on stderr; either way it returns
warn(what) == <<Message("warn", what)>>

\* Log.fail never returns: it raises RuntimeError when state.log.traceback is
\* set, and otherwise prints and leaves the process through SCons.Script.Exit(1)
fail == IF state.traceback THEN Raise("RuntimeError") ELSE Exit("1")

(***************************************************************************)
(* The environment: env.items is the mapping behind env[...] (a key may be *)
(* absent), env.force is env['force'], env.installing and env.declaring    *)
(* are the attributes of the same names.                                   *)
(***************************************************************************)
Has(e, key) == key \in DOMAIN e.items

\* 'key' in env and env['key']
HasTruthy(e, key) == Has(e, key) /\ Truthy(e.items[key])

\* env[key] = value
SetItem(e, key, value) ==
    [e EXCEPT !.items = [k \in DOMAIN e.items \cup {key} |->
                            IF k = key THEN value ELSE e.items[k]]]

\* os.environ['PWD']
PWD == <<"/","w">>

(***************************************************************************)
(* makeProductPath.                                                        *)
(***************************************************************************)
\* re.sub(r"%(\w)", r"%(\1)s", s), scanning from position i
RECURSIVE reSub(_, _)
reSub(s, i) ==
    IF i > Len(s) THEN <<>>
    ELSE IF s[i] = "%" /\ i < Len(s) /\ IsWord(s[i + 1])
         THEN <<"%", "(", s[i + 1], ")", "s">> \o reSub(s, i + 2)
         ELSE <<s[i]>> \o reSub(s, i + 1)

\* t % d for a mapping d, scanning from position i with acc written so far;
\* taken tells that a %(k)s was formatted before i.  The formats are those
\* reSub leaves of a string of word characters, "/" and "%": %(k)s with a
\* one-character key, %%, a % ending the string, and a % before a character
\* that is no conversion ("/").  For the last, Python first fetches the next
\* argument: the mapping itself when no key was used yet (and then finds the
\* conversion unsupported, ValueError), nothing once a %(k)s has replaced the
\* arguments by d[k] and used it (TypeError, not enough arguments).
RECURSIVE percentFormat(_, _, _, _, _)
percentFormat(t, i, d, acc, taken) ==
    IF i > Len(t) THEN Return(acc)
    ELSE IF t[i] # "%" THEN percentFormat(t, i + 1, d, Append(acc, t[i]), taken)
    ELSE IF i = Len(t) THEN Raise("ValueError")
    ELSE IF t[i + 1] = "%" THEN percentFormat(t, i + 2, d, Append(acc, "%"), taken)
    ELSE IF t[i + 1] = "("
         THEN IF t[i + 2] \in DOMAIN d
              THEN percentFormat(t, i + 5, d, acc \o d[t[i + 2]], TRUE)
              ELSE Raise("KeyError")
         ELSE IF taken THEN Raise("TypeError") ELSE Raise("ValueError")

makeProductPath(e, pathFormat) ==
    LET eupsPath == IF HasTruthy(e, "eupsPath") THEN e.items["eupsPath"] ELSE PWD
        d == [k \in {"P", "f", "p", "v", "c"} |->
                CASE k = "P" -> eupsPath
                  [] k = "f" -> e.items["eupsFlavor"]
                  [] k = "p" -> e.items["eupsProduct"]
                  [] k = "v" -> e.items["version"]
                  [] k = "c" -> PWD]
    IN  percentFormat(reSub(pathFormat, 1), 1, d, <<>>, FALSE)

(***************************************************************************)
(* determineVersion.  The vcs modules are not part of the source read      *)
(* here: a backend query gives whatever `backend` holds, a version name    *)
(* returned or a RuntimeError raised.                                      *)
(***************************************************************************)
NameKeyword == <<"$","N","a","m","e",":">>
HeadURLKeyword == <<"$","H","e","a","d","U","R","L",":">>
Hg == <<"h","g">>
Mercurial == <<"m","e","r","c","u","r","i","a","l">>
Git == <<"g","i","t">>

\* re.search(r"^" + keyword + r"\s+", s), keyword a literal
KeywordMatch(keyword, s) ==
    startswith(s, keyword) /\ Len(s) > Len(keyword) /\ IsSpace(s[Len(keyword) + 1])

\* [^ $] of the tag pattern
IsTagChar(ch) == ch \notin {" ", "$"}

\* where a greedy \s* starting at position i ends
RECURSIVE SkipSpace(_, _)
SkipSpace(s, i) == IF i <= Len(s) /\ IsSpace(s[i]) THEN SkipSpace(s, i + 1) ELSE i

\* where a greedy [^ $]* starting at position i ends
RECURSIVE SkipTag(_, _)
SkipTag(s, i) == IF i <= Len(s) /\ IsTagChar(s[i]) THEN SkipTag(s, i + 1) ELSE i

\* re.search(r"^[$]Name:\s+([^ $]*)", s).group(1)
NameTag(s) ==
    LET from == SkipSpace(s, Len(NameKeyword) + 1)
        to == SkipTag(s, from)
    IN  SubSeq(s, from, to - 1)

\* re.search(r"^[$]HeadURL:\s+(.*)", s).group(1)
HeadURLOf(s) ==
    LET from == SkipSpace(s, Len(HeadURLKeyword) + 1)
    IN  SubSeq(s, from, Len(s))

\* os.path.split(p)[0]
RECURSIVE rstripSlash(_)
rstripSlash(s) ==
    IF s # <<>> /\ s[Len(s)] = "/" THEN rstripSlash(SubSeq(s, 1, Len(s) - 1)) ELSE s
splitHead(p) ==
    LET slashes == {i \in 1..Len(p) : p[i] = "/"}
        cut == IF slashes = {} THEN 0 ELSE CHOOSE i \in slashes : \A j \in slashes : j <= i
        head == SubSeq(p, 1, cut)
    IN  IF head # <<>> /\ \E i \in 1..Len(head) : head[i] # "/"
        THEN rstripSlash(head) ELSE head

svnGuessVersionName(HeadURL, backend) == backend
hgGuessVersionName(backend) == backend
gitGuessVersionName(backend) == backend

\* lines 48-68: the version before the closing replace, or the backend's error
resolveVersion(e, versionString, backend) ==
    IF Has(e, "version") THEN Return(e.items["version"])
    ELSE IF ~Truthy(versionString) THEN Return(Unknown)
    ELSE IF KeywordMatch(NameKeyword, versionString)
         THEN Return(IF NameTag(versionString) = <<>> THEN Cvs ELSE NameTag(versionString))
    ELSE IF KeywordMatch(HeadURLKeyword, versionString)
         THEN svnGuessVersionName(splitHead(HeadURLOf(versionString)), backend)
    ELSE IF lower(versionString) \in {Hg, Mercurial} THEN hgGuessVersionName(backend)
    ELSE IF lower(versionString) \in {Git} THEN gitGuessVersionName(backend)
    ELSE Return(Unknown)

\* determineVersion without the closing replace
determineVersionNoReplace(e, versionString, backend) ==
    resolveVersion(e, versionString, backend)

\* determineVersion returning a configured version before the replace
determineVersionExplicitAsIs(e, versionString, backend) ==
    LET version == resolveVersion(e, versionString, backend)
    IN  IF version.kind = "raise" \/ Has(e, "version") THEN version
        ELSE Return(replace(version.value, "/", "_"))

determineVersion(e, versionString, backend) ==
    LET version == resolveVersion(e, versionString, backend)
    IN  IF version.kind = "raise" THEN version
        ELSE Return(replace(version.value, "/", "_"))

(***************************************************************************)
(* setPrefix.  The result is the environment as the call leaves it, how    *)
(* the call ended and what it logged.                                      *)
(***************************************************************************)
Result(e, r, l) == [env |-> e, ret |-> r, log |-> l]

\* lines 113-121: the prefix derived from the registry root, None when the
\* root already ends with "/" + flavor (flavor has no regex metacharacter)
derivedPrefix(e, eupsPrefix) ==
    LET flavor == e.items["eupsFlavor"]
        prodPath == IF HasTruthy(e, "eupsProductPath")
                    THEN e.items["eupsProductPath"] ELSE e.items["eupsProduct"]
    IN  IF ~endswith(eupsPrefix, <<"/">> \o flavor)
        THEN pathjoin(pathjoin(pathjoin(eupsPrefix, flavor), prodPath), e.items["version"])
        ELSE None

\* line 123 without the test of the version
ignoringPrefixWarnedAnyVersion(e, eupsPrefix) ==
    Truthy(eupsPrefix) /\ eupsPrefix # e.items["prefix"]

\* line 123: whether the "Ignoring prefix" warning is sent
ignoringPrefixWarned(e, eupsPrefix) ==
    e.items["version"] # Unknown /\ Truthy(eupsPrefix) /\ eupsPrefix # e.items["prefix"]

\* lines 122-130
choosePrefix(e, eupsPrefix) ==
    IF Has(e, "prefix")
    THEN Result(e, makeProductPath(e, e.items["prefix"]),
                IF ignoringPrefixWarned(e, eupsPrefix) THEN warn("Ignoring prefix") ELSE <<>>)
    ELSE IF HasTruthy(e, "eupsPath") THEN Result(e, Return(eupsPrefix), <<>>)
    ELSE Result(e, Return(UsrLocal), <<>>)

\* lines 101-105 without the test that the prefix is non-empty
noEupsPrefixAnyValue(e) ==
    IF Has(e, "prefix") THEN Return(e.items["prefix"]) ELSE Return(UsrLocal)

\* lines 101-105
noEupsPrefix(e) ==
    IF HasTruthy(e, "prefix") THEN Return(e.items["prefix"]) ELSE Return(UsrLocal)

\* lines 101-130, with env['version'] set
prefixFromEnv(e, eupsProductPath) ==
    IF state.no_eups THEN Result(e, noEupsPrefix(e), <<>>)
    ELSE IF Truthy(eupsProductPath)
         THEN LET made == makeProductPath(e, eupsProductPath)
              IN  IF made.kind = "raise" THEN Result(e, made, <<>>)
                  ELSE choosePrefix(e, derivedPrefix(e, made.value))
    ELSE IF HasTruthy(e, "eupsPath")
         THEN choosePrefix(e, derivedPrefix(e, e.items["eupsPath"]))
    ELSE Result(e, fail, <<Message("fail", "Unable to determine eupsPrefix")>>)

\* line 95 without the test of force
versionErrorFatalDespiteForce(e) == e.installing \/ e.declaring

\* line 95: the version error is fatal
versionErrorFatal(e) == (e.installing \/ e.declaring) /\ ~e.force

setPrefix(e, versionString, eupsProductPath, backend) ==
    LET version == determineVersion(e, versionString, backend)
    IN  IF version.kind = "raise"
        THEN IF versionErrorFatal(e)
             THEN Result(SetItem(e, "version", Unknown), fail,
                         <<Message("fail", "Found problem with version number")>>)
             ELSE prefixFromEnv(SetItem(e, "version", Unknown), eupsProductPath)
        ELSE prefixFromEnv(SetItem(e, "version", version.value), eupsProductPath)

(***************************************************************************)
(* Inputs of the version and prefix calls.                                 *)
(***************************************************************************)
VersionAlphabet == {"1", "/"}
Versions == StringsUpTo(VersionAlphabet, MaxVersionLen) \cup {Unknown}

\* what a backend query can give
Backends == {Raise("RuntimeError"), Return(<<"1","/","1">>), Return(<<"1","1">>)}

VersionStrings ==
    { <<>>,
      <<"g","i","t">>,
      <<"H","g">>,
      <<"M","e","r","c","u","r","i","a","l">>,
      <<"$","N","a","m","e",":"," ","1","/","1"," ","$">>,
      <<"$","N","a","m","e",":"," ","$">>,
      <<"$","N","a","m","e",":","1"," ","$">>,
      <<"$","H","e","a","d","U","R","L",":"," ","u","/","t","/","1"," ","$">>,
      <<"1">> }

\* the version strings setPrefix is called with: none, and a backend's name
PrefixVersionStrings == { <<>>, <<"g","i","t">> }

\* what a backend query can give setPrefix
PrefixBackends == {Raise("RuntimeError"), Return(<<"1","/","1">>)}

Flavor == <<"L">>
Product == <<"p">>

\* the empty mapping, and the mappings that hold key or do not
NoItem == [k \in {} |-> <<>>]
Optional(key, values) == {NoItem} \cup {key :> v : v \in values}

PrefixValues ==
    { <<>>, <<"/","o">>, <<"%","P","/","%","v">>, <<"/","r","/","L","/","p","/","1">>,
      <<"o","%">>, <<"%","P","%","/">> }
EupsPathValues == { <<>>, <<"/","r">>, <<"/","r","/","L">> }
EupsProductPathValues == { <<"q">> }
ProductPathFormats == { None, <<"%","P","/","%","f","/","%","p","/","%","v">>, <<"%","P","/","%","f">> }

ItemsOf(versions) ==
    { ("eupsFlavor" :> Flavor) @@ ("eupsProduct" :> Product) @@ v @@ p @@ r @@ q :
        v \in Optional("version", versions),
        p \in Optional("prefix", PrefixValues),
        r \in Optional("eupsPath", EupsPathValues),
        q \in Optional("eupsProductPath", EupsProductPathValues) }

VersionItems ==
    { ("eupsFlavor" :> Flavor) @@ ("eupsProduct" :> Product) @@ v :
        v \in Optional("version", Versions) }

Flags == [force : BOOLEAN, installing : BOOLEAN, declaring : BOOLEAN]

Env(items, flags) ==
    [items |-> items, force |-> flags.force,
     installing |-> flags.installing, declaring |-> flags.declaring]

NoEnv == Env(NoItem, [force |-> FALSE, installing |-> FALSE, declaring |-> FALSE])
NoCall == [op |-> "none"]

(***************************************************************************)
(* Version and prefix resolution: one call per behaviour.                  *)
(***************************************************************************)
InitPrefix ==
    /\ pc = "idle"
    /\ call = NoCall
    /\ env = NoEnv
    /\ ret = NotCalled
    /\ log = <<>>
    /\ graph = <<>>
    /\ running = {}
    /\ finished = {}
    /\ fs = {}
    /\ state \in [no_eups : BOOLEAN, traceback : BOOLEAN]
    /\ walk = {}

DetermineVersion ==
    /\ pc = "idle"
    /\ \E items \in VersionItems, versionString \in VersionStrings, backend \in Backends :
          LET e == Env(items, [force |-> FALSE, installing |-> FALSE, declaring |-> FALSE])
          IN  /\ call' = [op |-> "determineVersion", env |-> e,
                          versionString |-> versionString, backend |-> backend]
              /\ env' = e
              /\ ret' = determineVersion(e, versionString, backend)
    /\ pc' = "done"
    /\ UNCHANGED <<log, graph, running, finished, fs, state, walk>>

SetPrefix ==
    /\ pc = "idle"
    /\ \E items \in ItemsOf(Versions), flags \in Flags,
          versionString \in PrefixVersionStrings,
          eupsProductPath \in ProductPathFormats, backend \in PrefixBackends :
          LET e == Env(items, flags)
              r == setPrefix(e, versionString, eupsProductPath, backend)
          IN  /\ call' = [op |-> "setPrefix", env |-> e, versionString |-> versionString,
                          eupsProductPath |-> eupsProductPath, backend |-> backend]
              /\ env' = r.env
              /\ ret' = r.ret
              /\ log' = r.log
    /\ pc' = "done"
    /\ UNCHANGED <<graph, running, finished, fs, state, walk>>

NextPrefix == DetermineVersion \/ SetPrefix

SpecPrefix == InitPrefix /\ [][NextPrefix]_vars

(***************************************************************************)
(* InstallEups.  A file is its path; a target node is the path it is       *)
(* installed to.  list(set(files)) leaves the order of the lists to the    *)
(* hash seed, so the lists are kept as sets (the candidates have distinct  *)
(* base names, so no list holds a node twice) and the list acts, which may *)
(* hold a node more than once, as the bag of its nodes.                    *)
(***************************************************************************)
MaxCallerFiles == 2

DotBuild == <<".","b","u","i","l","d">>
DotTable == <<".","t","a","b","l","e">>
DotCfg == <<".","c","f","g">>
Eupspkg == <<"e","u","p","s","p","k","g">>
Ups == <<"u","p","s">>
Dest == <<"d","/","u","p","s">>
TableNode == <<"t","a","b","l","e">>
EupsMarker == <<"e","u","p","s">>

\* what the caller may pass as files
CallerFileNames == { <<"e","u","p","s","p","k","g",".","c","f","g",".","s","h">>, <<"c",".","b","u","i","l","d">>, <<"u","p","s","/","a",".","b","u","i","l","d">> }

\* what may lie in ./ups
UpsFileNames == { <<"a",".","b","u","i","l","d">>, <<"a",".","t","a","b","l","e">>, <<"a",".","c","f","g">>, <<"e","u","p","s","p","k","g",".","s","h">>, <<"x",".","t","x","t">> }

\* glob.glob(os.path.join("ups", "*" + suffix)) over the names in ./ups: a
\* leading "." is not matched by "*"
globSuffix(upsDir, suffix) ==
    { pathjoin(Ups, n) : n \in {m \in upsDir : endswith(m, suffix) /\ m[1] # "."} }

\* glob.glob(os.path.join("ups", prefix + "*"))
globPrefix(upsDir, prefix) ==
    { pathjoin(Ups, n) : n \in {m \in upsDir : startswith(m, prefix)} }

\* lines 310-314: the candidates
candidateFiles(files, upsDir) ==
    files \cup globSuffix(upsDir, DotBuild) \cup globSuffix(upsDir, DotTable)
          \cup globSuffix(upsDir, DotCfg) \cup globPrefix(upsDir, Eupspkg)

\* line 316: re.search(r"\.build$", f)
isBuildFile(f) == endswith(f, DotBuild)
\* line 320: re.search(r"\.table$", f)
isTableFile(f) == endswith(f, DotTable)
\* line 324: re.search(r"^eupspkg", f)
isEupspkgFile(f) == startswith(f, Eupspkg)
\* line 328: not re.search(r"\.(build|table)$", f)
isMiscFile(f) == ~(endswith(f, DotBuild) \/ endswith(f, DotTable))

\* os.path.basename
basename(f) ==
    LET slashes == {i \in 1..Len(f) : f[i] = "/"}
        cut == IF slashes = {} THEN 0 ELSE CHOOSE i \in slashes : \A j \in slashes : j <= i
    IN  SubSeq(f, cut + 1, Len(f))

\* env.Install(dest, files): one target node per file
Install(dest, files) == { pathjoin(dest, basename(f)) : f \in files }

\* lines 347-350
expandbuild(e, i) ==
    [tool |-> "expandbuild", version |-> e.items["version"],
     repoversion |-> IF Has(e, "baseversion") THEN e.items["baseversion"] ELSE None,
     product |-> None, file |-> i]

\* lines 356-359
expandtable(presetup, i) ==
    [tool |-> "expandtable", version |-> None, repoversion |-> None,
     product |-> presetup, file |-> i]

\* lines 344-351: the post-actions of target t. AddPostAction(build_obj, ...)
\* adds the command of each i to every node of build_obj
buildPostActions(e, build_obj, t) ==
    IF t \in build_obj THEN { expandbuild(e, i) : i \in build_obj } ELSE {}

\* lines 353-364: env.Command("table", "", ...) names the one node "table"
tableActs(table_obj) == IF table_obj = {} THEN {} ELSE {TableNode}

\* lines 351 and 362, with the nodes of the table commands left out
eupsTargetsBuildOnly(build_obj, table_obj) == build_obj

\* lines 351 and 362: the nodes eupsTargets collects
eupsTargets(build_obj, table_obj) == build_obj \cup tableActs(table_obj)

\* lines 318-330 and 363: the list acts, as the bag of its nodes. A file in two
\* of the lists gives its node twice, and each table file adds the node of
\* its command, "table", once more
acts(build_obj, table_obj, eupspkg_obj, misc_obj) ==
    SetToBag(build_obj) (+) SetToBag(table_obj) (+) SetToBag(eupspkg_obj)
        (+) SetToBag(misc_obj)
        (+) [t \in tableActs(table_obj) |-> Cardinality(table_obj)]

NoRegistration ==
    [files |-> {}, buildFiles |-> {}, tableFiles |-> {}, eupspkgFiles |-> {},
     miscFiles |-> {}, targets |-> {}, alwaysBuild |-> {}, postActions |-> <<>>,
     commands |-> {}, depends |-> {}, sideEffects |-> {}, acts |-> EmptyBag]

\* lines 301-370: what InstallEups registers with the build tool
registration(e, dest, files, upsDir, presetup) ==
    LET all == candidateFiles(files, upsDir)
        buildFiles == {f \in all : isBuildFile(f)}
        tableFiles == {f \in all : isTableFile(f)}
        eupspkgFiles == {f \in all : isEupspkgFile(f)}
        miscFiles == {f \in all : isMiscFile(f)}
        build_obj == Install(dest, buildFiles)
        table_obj == Install(dest, tableFiles)
        eupspkg_obj == Install(dest, eupspkgFiles)
        misc_obj == Install(dest, miscFiles)
        installed == build_obj \cup table_obj \cup eupspkg_obj \cup misc_obj
        side == eupsTargets(build_obj, table_obj)
    IN  [files |-> all,
         buildFiles |-> buildFiles, tableFiles |-> tableFiles,
         eupspkgFiles |-> eupspkgFiles, miscFiles |-> miscFiles,
         targets |-> installed \cup tableActs(table_obj),
         alwaysBuild |-> build_obj \cup table_obj,
         postActions |-> [t \in installed |-> buildPostActions(e, build_obj, t)],
         commands |-> { expandtable(presetup, i) : i \in table_obj },
         depends |-> { <<a, i>> : a \in tableActs(table_obj), i \in table_obj },
         sideEffects |-> IF side = {} THEN {} ELSE { <<EupsMarker, t>> : t \in side },
         acts |-> acts(build_obj, table_obj, eupspkg_obj, misc_obj)]

\* shutil.rmtree(dest, ignore_errors=True)
rmtree(paths, dest) == { q \in paths : ~(q = dest \/ startswith(q, dest \o <<"/">>)) }

(***************************************************************************)
(* Declare.  The command-line targets, the options and os.environ are      *)
(* inputs of the call; env['ENV'] is env.ENV.  A product of the list is    *)
(* None, a name, or a pair (product, version); no list and the empty list  *)
(* are the same to the code (not products).  env has 'eupsFlavor',         *)
(* 'eupsProduct' and 'prefix', as it has after setPrefix.                  *)
(***************************************************************************)
MaxProducts == 2

DeclareName == <<"d","e","c","l","a","r","e">>
UndeclareName == <<"u","n","d","e","c","l","a","r","e">>
CurrentName == <<"c","u","r","r","e","n","t">>
InstallName == <<"i","n","s","t","a","l","l">>
TargetNames == { DeclareName, UndeclareName, CurrentName, InstallName }

\* the entries of products
NoProduct == [pair |-> FALSE, product |-> None, version |-> None]
ProductEntries ==
    { NoProduct,
      [pair |-> FALSE, product |-> <<"q">>, version |-> None],
      [pair |-> TRUE, product |-> <<"q">>, version |-> <<"2">>],
      [pair |-> TRUE, product |-> None, version |-> None] }

RECURSIVE ProductLists(_)
ProductLists(n) ==
    IF n = 0 THEN {<<>>}
    ELSE LET shorter == ProductLists(n - 1)
         IN  shorter \cup
             { Append(l, x) : l \in {y \in shorter : Len(y) = n - 1}, x \in ProductEntries }

\* env['ENV'] before the call
StartENV == [PATH |-> <<"/","b","i","n">>, EUPS_LOCK_PID |-> None]

\* lines 152-155: before the loop
NoDeclarations ==
    [ENV |-> StartENV, current |-> <<>>, declare |-> <<>>, undeclare |-> <<>>,
     executed |-> <<>>, log |-> <<>>]

\* lines 161-170: the version of the entry prod
versionOf(e, prod) ==
    IF prod.pair THEN prod.version
    ELSE IF Has(e, "version") THEN e.items["version"] ELSE None

\* lines 161-173: the product of the entry prod
productOf(e, prod) ==
    IF Truthy(prod.product) THEN prod.product ELSE e.items["eupsProduct"]

\* lines 180-185
undeclareCommand(e, product, version, targets) ==
    <<"e","u","p","s"," ","u","n","d","e","c","l","a","r","e"," ","-","-","f","l","a","v","o","r"," ">> \o e.items["eupsFlavor"] \o <<" ">> \o product \o <<" ">> \o version
        \o (IF CurrentName \in targets /\ DeclareName \notin targets
            THEN <<" ","-","-","c","u","r","r","e","n","t">> ELSE <<>>)

\* lines 194-201
declareCommand(e, product, version) ==
    <<"e","u","p","s"," ","d","e","c","l","a","r","e"," ","-","-","f","o","r","c","e"," ","-","-","f","l","a","v","o","r"," ">> \o e.items["eupsFlavor"] \o <<" ","-","-","r","o","o","t"," ">>
        \o e.items["prefix"]
        \o (IF Has(e, "eupsPath") THEN <<" ","-","Z"," ">> \o e.items["eupsPath"] ELSE <<>>)
        \o (IF Truthy(version) THEN <<" ">> \o product \o <<" ">> \o version ELSE <<>>)

\* lines 176-177
withEupsENV(a, eupsDir, lockPid) ==
    [a EXCEPT !.ENV.PATH = @ \o <<":">> \o eupsDir \o <<"/","b","i","n">>,
              !.ENV.EUPS_LOCK_PID = IF lockPid = None THEN <<"-","1">> ELSE lockPid]

\* lines 178-191: undeclaring
undeclareStep(a, command, version, clean) ==
    IF ~Truthy(version)
    THEN [a EXCEPT !.log = @ \o warn("I don't know your version; not undeclaring to eups")]
    ELSE IF clean THEN [a EXCEPT !.executed = Append(@, command)]
    ELSE [a EXCEPT !.undeclare = Append(@, command)]

\* lines 192-208: declaring
declareStep(a, command, tag) ==
    [a EXCEPT !.current = Append(@, command \o <<" ","-","-","c","u","r","r","e","n","t">>),
              !.declare = Append(@, IF Truthy(tag) THEN command \o <<" ","-","-","t","a","g","=">> \o tag
                                    ELSE command)]

\* lines 160-208: one turn of the loop, for the entry prod
declareOne(a, e, prod, targets, clean, tag, eupsDir, lockPid) ==
    IF eupsDir = None THEN a
    ELSE IF UndeclareName \in targets \/ clean
    THEN undeclareStep(withEupsENV(a, eupsDir, lockPid),
                       undeclareCommand(e, productOf(e, prod), versionOf(e, prod), targets),
                       versionOf(e, prod), clean)
    ELSE declareStep(withEupsENV(a, eupsDir, lockPid),
                     declareCommand(e, productOf(e, prod), versionOf(e, prod)), tag)

\* lines 159-208: the loop over products
RECURSIVE declareAll(_, _, _, _, _, _, _, _)
declareAll(a, e, products, targets, clean, tag, eupsDir, lockPid) ==
    IF products = <<>> THEN a
    ELSE declareAll(declareOne(a, e, Head(products), targets, clean, tag, eupsDir, lockPid),
                    e, Tail(products), targets, clean, tag, eupsDir, lockPid)

\* lines 210-217: the commands registered, in the order of acts. The action
\* of "declare" is the empty string when "current" is a command-line target
declareCommands(a, targets) ==
    (IF a.current = <<>> THEN <<>>
     ELSE <<[target |-> CurrentName, action |-> a.current]>>)
    \o (IF a.declare = <<>> THEN <<>>
        ELSE <<[target |-> DeclareName,
                action |-> IF CurrentName \in targets THEN <<>> ELSE a.declare]>>)
    \o (IF a.undeclare = <<>> THEN <<>>
        ELSE <<[target |-> UndeclareName, action |-> a.undeclare]>>)

\* lines 144-145
deprecated(targets, silent) ==
    IF UndeclareName \in targets /\ ~silent
    THEN warn("'scons undeclare' is deprecated") ELSE <<>>

\* lines 148-151
declaring(targets, clean) ==
    \/ DeclareName \in targets
    \/ UndeclareName \in targets
    \/ InstallName \in targets /\ clean
    \/ CurrentName \in targets

\* lines 210-219, a being what the loop left: acts is the list of the nodes
\* of the commands
declared(a, targets, warned) ==
    [ret |-> Return([k \in DOMAIN declareCommands(a, targets) |->
                         declareCommands(a, targets)[k].target]),
     ENV |-> a.ENV, commands |-> declareCommands(a, targets), executed |-> a.executed,
     log |-> warned \o a.log]

\* lines 142-219
DeclareResult(e, products, targets, silent, clean, tag, eupsDir, lockPid) ==
    IF ~declaring(targets, clean)
    THEN declared(NoDeclarations, targets, deprecated(targets, silent))
    ELSE declared(declareAll(NoDeclarations, e,
                             IF products = <<>> THEN <<NoProduct>> ELSE products,
                             targets, clean, tag, eupsDir, lockPid),
                  targets, deprecated(targets, silent))

(***************************************************************************)
(* InstallEups, then the build tool running what was registered; or        *)
(* Declare.  The scheduler is SCons's: it starts a target when the targets *)
(* it depends on have finished and no running target shares a side effect  *)
(* with it.                                                                *)
(***************************************************************************)
EupsEnvs ==
    { Env(("eupsFlavor" :> Flavor) @@ ("eupsProduct" :> Product)
              @@ ("version" :> <<"1">>) @@ b,
          [force |-> FALSE, installing |-> i, declaring |-> FALSE]) :
        b \in Optional("baseversion", {<<"0">>}), i \in BOOLEAN }

Presetups == { <<>>, <<"-","-","p","r","o","d","u","c","t"," ","p","=","1">> }

InitEups ==
    /\ pc = "idle"
    /\ call = NoCall
    /\ env = NoEnv
    /\ ret = NotCalled
    /\ log = <<>>
    /\ graph = NoRegistration
    /\ running = {}
    /\ finished = {}
    /\ fs = {Dest, pathjoin(Dest, <<"a",".","t","a","b","l","e">>), <<"d","/","b","i","n">>}
    /\ state = [no_eups |-> FALSE, traceback |-> FALSE]
    /\ walk = {}

InstallEups ==
    /\ pc = "idle"
    /\ \E e \in EupsEnvs, clean \in BOOLEAN, haveEups \in BOOLEAN,
          files \in SUBSET CallerFileNames, upsDir \in SUBSET UpsFileNames,
          presetup \in Presetups :
          /\ Cardinality(files) <= MaxCallerFiles
          /\ call' = [op |-> "InstallEups", env |-> e, dest |-> Dest, files |-> files,
                      upsDir |-> upsDir, presetup |-> presetup, clean |-> clean,
                      haveEups |-> haveEups]
          /\ env' = e
          /\ IF ~e.installing
             THEN /\ graph' = NoRegistration
                  /\ log' = <<>>
                  /\ fs' = fs
             ELSE IF clean
             THEN /\ graph' = NoRegistration
                  /\ log' = warn("Removing")
                  /\ fs' = rmtree(fs, Dest)
             ELSE /\ graph' = registration(e, Dest, files, upsDir, presetup)
                  /\ log' = IF haveEups THEN <<>> ELSE warn("Unable to import eups; not locking")
                  /\ fs' = fs
          /\ ret' = Return(graph'.acts)
    /\ pc' = "registered"
    /\ UNCHANGED <<running, finished, state, walk>>

DeclareEnvs ==
    { Env(("eupsFlavor" :> Flavor) @@ ("eupsProduct" :> Product) @@ ("prefix" :> <<"/","o">>)
              @@ v @@ r,
          [force |-> FALSE, installing |-> FALSE, declaring |-> TRUE]) :
        v \in Optional("version", {<<"1">>}), r \in Optional("eupsPath", {<<"/","r">>}) }

\* env.Declare(products) with the command-line targets, the options silent,
\* clean and tag, and EUPS_DIR and EUPS_LOCK_PID of os.environ
Declare ==
    /\ pc = "idle"
    /\ \E e \in DeclareEnvs, products \in ProductLists(MaxProducts),
          targets \in SUBSET TargetNames, silent \in BOOLEAN, clean \in BOOLEAN,
          tag \in {None, <<"t">>}, eupsDir \in {None, <<"/","e">>}, lockPid \in {None, <<"7">>} :
          \E r \in {DeclareResult(e, products, targets, silent, clean, tag, eupsDir,
                                  lockPid)} :
              /\ call' = [op |-> "Declare", env |-> e, products |-> products,
                          targets |-> targets, silent |-> silent, clean |-> clean,
                          tag |-> tag, eupsDir |-> eupsDir, lockPid |-> lockPid]
              /\ env' = [items |-> e.items, force |-> e.force, installing |-> e.installing,
                         declaring |-> e.declaring, ENV |-> r.ENV]
              /\ ret' = r.ret
              /\ log' = r.log
              /\ graph' = [commands |-> r.commands, executed |-> r.executed]
    /\ pc' = "done"
    /\ UNCHANGED <<running, finished, fs, state, walk>>

SharesSideEffect(t, u) ==
    \E m \in {x[1] : x \in graph.sideEffects} :
        <<m, t>> \in graph.sideEffects /\ <<m, u>> \in graph.sideEffects

Start ==
    /\ pc = "registered"
    /\ \E t \in graph.targets \ (running \cup finished) :
          /\ \A d \in graph.depends : d[1] = t => d[2] \in finished
          /\ \A u \in running : ~SharesSideEffect(t, u)
          /\ running' = running \cup {t}
    /\ UNCHANGED <<pc, call, env, ret, log, graph, finished, fs, state, walk>>

Finish ==
    /\ pc = "registered"
    /\ \E t \in running :
          /\ running' = running \ {t}
          /\ finished' = finished \cup {t}
    /\ UNCHANGED <<pc, call, env, ret, log, graph, fs, state, walk>>

NextEups == InstallEups \/ Declare \/ Start \/ Finish

SpecEups == InitEups /\ [][NextEups]_vars

(***************************************************************************)
(* InstallDir and DirectoryInstaller.  A path is the sequence of its       *)
(* names, relative to the working directory; the source tree is the set of *)
(* the paths below the source directory, a directory being a path whose    *)
(* last name is a directory's name.  A compiled pattern is the set of the  *)
(* endings its alternatives accept: every ignoreRegex used is of the form  *)
(* (x$|y$|...).                                                            *)
(***************************************************************************)
MaxEntries == 3

\* the default ignoreRegex of InstallDir, and another pattern
DefaultIgnoreRegex == <<"(","~","$","|","\\",".","p","y","c","$","|","\\",".","o","s","?","$",")">>
PyIgnoreRegex == <<"\\",".","p","y","$">>

\* re.compile(pattern), for a pattern that is a string
compile(pattern) ==
    IF pattern = DefaultIgnoreRegex THEN { <<"~">>, <<".","p","y","c">>, <<".","o">>, <<".","o","s">> }
    ELSE IF pattern = PyIgnoreRegex THEN { <<".","p","y">> }
    ELSE {}

DotSvn == <<".","s","v","n">>
SourceDir == <<"p","y">>
PrefixDir == <<"d">>

DirNames == { <<"s","u","b">>, DotSvn, <<"o","l","d","~">> }
FileNames == { <<"a",".","p","y">>, <<"a",".","p","y","c">>, <<"a",".","o","s">> }

IsDirPath(p) == p[Len(p)] \in DirNames \cup {SourceDir}

\* the source trees of at most n entries below the source directory
RECURSIVE Trees(_)
Trees(n) ==
    IF n = 0 THEN {{}}
    ELSE LET smaller == Trees(n - 1)
         IN  smaller \cup
             { t \cup {Append(parent, name)} :
                 t \in smaller,
                 parent \in {<<SourceDir>>} \cup UNION {{q \in u : IsDirPath(q)} : u \in smaller},
                 name \in DirNames \cup FileNames }

\* the trees in which every entry lies in a directory of the tree
WellFormed(t) ==
    \A q \in t : Len(q) = 2 \/ SubSeq(q, 1, Len(q) - 1) \in t

SourceTrees == { t \in Trees(MaxEntries) : WellFormed(t) /\ Cardinality(t) <= MaxEntries }

\* self.ignoreRegex.search(name)
search(ignoreRegex, name) == \E ending \in ignoreRegex : endswith(name, ending)

\* os.listdir split by os.walk: the directories and the files in root
dirnamesIn(tree, root) ==
    { q[Len(q)] : q \in {x \in tree : Len(x) = Len(root) + 1 /\ SubSeq(x, 1, Len(root)) = root
                                      /\ IsDirPath(x)} }
filenamesIn(tree, root) ==
    { q[Len(q)] : q \in {x \in tree : Len(x) = Len(root) + 1 /\ SubSeq(x, 1, Len(root)) = root
                                      /\ ~IsDirPath(x)} }

\* lines 244-247: dirnames[:] as the walk goes on with it
keptDirnames(dirnames, action) ==
    IF ~action.recursive THEN {} ELSE {d \in dirnames : d # DotSvn}

\* lines 253-259: the files copied
copiedFilenames(filenames, action) ==
    {f \in filenames : ~search(action.ignoreRegex, f)}

\* os.makedirs(path): the path and the directories above it
makedirs(paths, path) == paths \cup { SubSeq(path, 1, k) : k \in 1..Len(path) }

\* lines 243-259 for one (root, dirnames, filenames) of os.walk: the
\* destination afterwards
walkStep(paths, tree, root, action) ==
    LET dirnames == keptDirnames(dirnamesIn(tree, root), action)
        made == UNION ({paths} \cup { makedirs(paths, <<PrefixDir>> \o Append(root, d)) :
                                       d \in dirnames })
    IN  made \cup { <<PrefixDir>> \o Append(root, f) :
                      f \in copiedFilenames(filenamesIn(tree, root), action) }

NoAction == [ignoreRegex |-> {}, recursive |-> FALSE]

\* DirectoryInstaller(ignoreRegex, recursive): re.compile(None) raises TypeError
DirectoryInstaller(ignoreRegex, recursive) ==
    IF ignoreRegex = None THEN [kind |-> "raise", value |-> <<"TypeError">>, action |-> NoAction]
    ELSE [kind |-> "return", value |-> None,
          action |-> [ignoreRegex |-> compile(ignoreRegex), recursive |-> recursive]]

\* lines 268-274: what InstallDir returns (the list of the target's node, a
\* node being the path of the target) and the target it registers
InstallDirResult(e, prefix, dir, ignoreRegex, recursive) ==
    IF ~e.installing
    THEN [ret |-> Return(<<>>), registered |-> FALSE, target |-> <<>>, action |-> NoAction]
    ELSE LET made == DirectoryInstaller(ignoreRegex, recursive)
         IN  IF made.kind = "raise"
             THEN [ret |-> Raise("TypeError"), registered |-> FALSE, target |-> <<>>,
                   action |-> NoAction]
             ELSE [ret |-> Return(<< <<prefix, dir>> >>), registered |-> TRUE,
                   target |-> <<prefix, dir>>, action |-> made.action]

IgnoreRegexes == { DefaultIgnoreRegex, PyIgnoreRegex, None }

DirEnvs ==
    { Env(("eupsFlavor" :> Flavor) @@ ("eupsProduct" :> Product),
          [force |-> FALSE, installing |-> i, declaring |-> FALSE]) : i \in BOOLEAN }

InitDir ==
    /\ pc = "idle"
    /\ call = NoCall
    /\ env = NoEnv
    /\ ret = NotCalled
    /\ log = <<>>
    /\ graph = <<>>
    /\ running = {}
    /\ finished = {}
    /\ fs \in { {}, {<<PrefixDir>>, <<PrefixDir, SourceDir>>} }
    /\ state = [no_eups |-> FALSE, traceback |-> FALSE]
    /\ walk = {}

\* env.InstallDir(prefix, dir, ignoreRegex, recursive) with tree below dir
InstallDir ==
    /\ pc = "idle"
    /\ \E e \in DirEnvs, ignoreRegex \in IgnoreRegexes, recursive \in BOOLEAN,
          tree \in SourceTrees :
          LET r == InstallDirResult(e, PrefixDir, SourceDir, ignoreRegex, recursive)
          IN  /\ call' = [op |-> "InstallDir", env |-> e, prefix |-> PrefixDir,
                          dir |-> SourceDir, ignoreRegex |-> ignoreRegex,
                          recursive |-> recursive, tree |-> tree]
              /\ env' = e
              /\ ret' = r.ret
              /\ graph' = [target |-> r.target, action |-> r.action,
                           alwaysBuild |-> r.registered]
              /\ pc' = IF r.registered THEN "registered" ELSE "done"
    /\ UNCHANGED <<log, running, finished, fs, state, walk>>

\* the build tool calls the action: lines 238-242, and os.walk begins
DirectoryInstallerCall ==
    /\ pc = "registered"
    /\ call.op = "InstallDir"
    /\ fs' = makedirs(fs, graph.target)
    /\ walk' = {<<call.dir>>}
    /\ pc' = "walking"
    /\ UNCHANGED <<call, env, ret, log, graph, running, finished, state>>

\* one (root, dirnames, filenames) of os.walk
Walk ==
    /\ pc = "walking"
    /\ \E root \in walk :
          /\ fs' = walkStep(fs, call.tree, root, graph.action)
          /\ walk' = (walk \ {root}) \cup
                     { Append(root, d) :
                         d \in keptDirnames(dirnamesIn(call.tree, root), graph.action) }
    /\ UNCHANGED <<pc, call, env, ret, log, graph, running, finished, state>>

\* line 260
WalkEnd ==
    /\ pc = "walking"
    /\ walk = {}
    /\ ret' = Return(<<"0">>)
    /\ pc' = "done"
    /\ UNCHANGED <<call, env, log, graph, running, finished, fs, state, walk>>

NextDir == InstallDir \/ DirectoryInstallerCall \/ Walk \/ WalkEnd

SpecDir == InitDir /\ [][NextDir]_vars

(***************************************************************************)
(* utils.runExternal.  A command is a string (run by the shell) or a list  *)
(* of words; what the process does is the environment's: it cannot be      *)
(* started (a list whose program is missing), or it ends with a status     *)
(* having written stdout and stderr.                                       *)
(***************************************************************************)
MaxStatus == 2

StrCmd(text) == [type |-> "str", text |-> text, argv |-> <<>>]
ListCmd(argv) == [type |-> "list", text |-> <<>>, argv |-> argv]

Cmds == { StrCmd(<<"l","s"," ","-","l">>), StrCmd(<<" ">>), ListCmd(<<<<"l","s">>, <<"-","l">>>>) }
Msgs == { None, <<"m">> }
Outputs == { <<>>, <<"o">>, <<" ","o"," ">> }
Errors == { <<>>, <<"e">> }

Processes ==
    [started : {TRUE}, status : 0..MaxStatus, stdout : Outputs, stderr : Errors]
    \cup [started : {FALSE}, status : {0}, stdout : {<<>>}, stderr : {<<>>}]

\* str.lstrip, str.rstrip, str.strip
RECURSIVE lstrip(_)
lstrip(t) == IF t # <<>> /\ IsSpace(t[1]) THEN lstrip(Tail(t)) ELSE t
RECURSIVE rstrip(_)
rstrip(t) == IF t # <<>> /\ IsSpace(t[Len(t)]) THEN rstrip(SubSeq(t, 1, Len(t) - 1)) ELSE t
strip(t) == rstrip(lstrip(t))

\* text.split()[0], None when split() is empty
RECURSIVE SkipWord(_, _)
SkipWord(t, i) == IF i <= Len(t) /\ ~IsSpace(t[i]) THEN SkipWord(t, i + 1) ELSE i
firstWord(text) ==
    LET t == lstrip(text)
    IN  IF t = <<>> THEN None ELSE SubSeq(t, 1, SkipWord(t, 1) - 1)

\* lines 145-149
defaultMsg(cmd, msg) ==
    IF msg # None THEN msg
    ELSE IF cmd.type = "str" /\ firstWord(cmd.text) # None
         THEN <<"E","r","r","o","r"," ","r","u","n","n","i","n","g"," ">> \o firstWord(cmd.text)
         ELSE <<"E","r","r","o","r"," ","r","u","n","n","i","n","g"," ","e","x","t","e","r","n","a","l"," ","c","o","m","m","a","n","d">>

\* repr of the bytes b (printable, without quote or backslash)
bytesRepr(b) == <<"b", "'">> \o b \o <<"'">>

RaiseMessage(e, message) == [kind |-> "raise", value |-> <<e>>, message |-> message]

\* lines 159-165, the command having ended with a nonzero status: retval was
\* never bound, so the return statement after the warning raises
afterFailure(fatal, msg, process) ==
    IF fatal
    THEN [ret |-> RaiseMessage("RuntimeError", msg \o <<":", " ">> \o process.stderr),
          log |-> <<>>]
    ELSE [ret |-> RaiseMessage("UnboundLocalError", <<"r","e","t","v","a","l">>),
          log |-> <<Message("warn", msg \o <<":", " ">> \o bytesRepr(process.stderr))>>]

\* lines 144-165
runExternal(cmd, fatal, msg, process) ==
    IF ~process.started
    THEN [ret |-> RaiseMessage("FileNotFoundError", cmd.argv[1]), log |-> <<>>]
    ELSE IF process.status # 0 THEN afterFailure(fatal, defaultMsg(cmd, msg), process)
    ELSE [ret |-> Return(strip(process.stdout)), log |-> <<>>]

InitRun ==
    /\ pc = "idle"
    /\ call = NoCall
    /\ env = NoEnv
    /\ ret = NotCalled
    /\ log = <<>>
    /\ graph = <<>>
    /\ running = {}
    /\ finished = {}
    /\ fs = {}
    /\ state \in [no_eups : {FALSE}, traceback : BOOLEAN]
    /\ walk = {}

RunExternal ==
    /\ pc = "idle"
    /\ \E cmd \in Cmds, fatal \in BOOLEAN, msg \in Msgs, process \in Processes :
          /\ process.started \/ cmd.type = "list"
          /\ LET r == runExternal(cmd, fatal, msg, process)
             IN  /\ call' = [op |-> "runExternal", cmd |-> cmd, fatal |-> fatal,
                             msg |-> msg, process |-> process]
                 /\ ret' = r.ret
                 /\ log' = r.log
    /\ pc' = "done"
    /\ UNCHANGED <<env, graph, running, finished, fs, state, walk>>

NextRun == RunExternal

SpecRun == InitRun /\ [][NextRun]_vars

(***************************************************************************)
(* InstallLSST.  The directories are distinct names; the targets of        *)
(* InstallDir and the nodes of InstallEups are kept apart (a target of     *)
(* InstallDir is the pair of the prefix and the directory, a node of       *)
(* InstallEups is a path).  The list results is kept as the lists the      *)
(* calls returned, in the order of dirs, each as the bag of its nodes:     *)
(* results.extend joins them in that order.                                *)
(***************************************************************************)
MaxDirs == 2

Bin == <<"b","i","n">>
LSSTDirNames == { Ups, SourceDir, Bin }

\* the lists of at most n distinct directories
RECURSIVE DirLists(_)
DirLists(n) ==
    IF n = 0 THEN {<<>>}
    ELSE LET shorter == DirLists(n - 1)
         IN  shorter \cup
             { Append(l, d) : l \in {x \in shorter : Len(x) = n - 1}, d \in LSSTDirNames }

Distinct(l) == \A i, j \in 1..Len(l) : i # j => l[i] # l[j]

\* lines 290-372: what a call of InstallEups returns, registers, logs and
\* leaves of the destination
InstallEupsResult(e, dest, files, upsDir, presetup, clean, haveEups, paths) ==
    IF ~e.installing
    THEN [acts |-> EmptyBag, graph |-> NoRegistration, log |-> <<>>, fs |-> paths]
    ELSE IF clean
    THEN [acts |-> EmptyBag, graph |-> NoRegistration, log |-> warn("Removing"),
          fs |-> rmtree(paths, dest)]
    ELSE LET g == registration(e, dest, files, upsDir, presetup)
         IN  [acts |-> g.acts, graph |-> g,
              log |-> IF haveEups THEN <<>> ELSE warn("Unable to import eups; not locking"),
              fs |-> paths]

\* line 380: results = []
NoResults ==
    [raised |-> FALSE, calls |-> <<>>, results |-> <<>>,
     dirActions |-> {}, eups |-> NoRegistration,
     depends |-> {}, eupsDepends |-> {}, alias |-> {}, eupsAlias |-> {},
     clean |-> {}, log |-> <<>>, fs |-> {}]

\* lines 384 and 387-389, r being the outcome of InstallEups for the
\* directory d
recordEups(g, d, r) ==
    [g EXCEPT !.calls = Append(@, [to |-> "InstallEups", dir |-> d]),
              !.eups = r.graph,
              !.results = Append(@, r.acts),
              !.eupsDepends = @ \cup { <<t, d>> : t \in BagToSet(r.acts) },
              !.eupsAlias = @ \cup BagToSet(r.acts),
              !.log = @ \o r.log,
              !.fs = r.fs]

\* lines 386-389, r being the outcome of InstallDir for the directory d; the
\* loop ends there when InstallDir raised
recordDir(g, d, r) ==
    IF r.ret.kind = "raise"
    THEN [g EXCEPT !.raised = TRUE,
                   !.calls = Append(@, [to |-> "InstallDir", dir |-> d])]
    ELSE [g EXCEPT !.calls = Append(@, [to |-> "InstallDir", dir |-> d]),
                   !.results = Append(@, SetToBag(Range(r.ret.value))),
                   !.dirActions = @ \cup { [target |-> x, action |-> r.action] :
                                              x \in Range(r.ret.value) },
                   !.depends = @ \cup { <<x, d>> : x \in Range(r.ret.value) },
                   !.alias = @ \cup Range(r.ret.value)]

\* lines 383-389: one turn of the loop, for the directory d
dispatch(g, e, noEups, prefix, d, ignoreRegex, upsDir, clean, haveEups) ==
    IF d = Ups /\ ~noEups
    THEN recordEups(g, d, InstallEupsResult(e, pathjoin(prefix, Ups), {}, upsDir, <<>>,
                                            clean, haveEups, g.fs))
    ELSE recordDir(g, d, InstallDirResult(e, prefix, d, ignoreRegex, TRUE))

\* lines 381-389: the loop over dirs, left at the first call that raises
RECURSIVE dispatchAll(_, _, _, _, _, _, _, _, _)
dispatchAll(g, e, noEups, prefix, dirs, ignoreRegex, upsDir, clean, haveEups) ==
    IF dirs = <<>> \/ g.raised THEN g
    ELSE dispatchAll(dispatch(g, e, noEups, prefix, Head(dirs), ignoreRegex, upsDir, clean,
                              haveEups),
                     e, noEups, prefix, Tail(dirs), ignoreRegex, upsDir, clean, haveEups)

\* lines 390-391, g being what the loop left: self.Clean("install", prefix)
\* is reached when no call raised
endOfCall(g, prefix) ==
    IF g.raised THEN [ret |-> Raise("TypeError"), graph |-> g]
    ELSE [ret |-> Return(g.results), graph |-> [g EXCEPT !.clean = {prefix}]]

\* lines 379-391: InstallLSST
InstallLSSTResult(e, noEups, prefix, dirs, ignoreRegex, upsDir, clean, haveEups, paths) ==
    endOfCall(dispatchAll([NoResults EXCEPT !.fs = paths], e, noEups, prefix, dirs,
                          ignoreRegex, upsDir, clean, haveEups),
              prefix)

InitLSST ==
    /\ pc = "idle"
    /\ call = NoCall
    /\ env = NoEnv
    /\ ret = NotCalled
    /\ log = <<>>
    /\ graph = NoResults
    /\ running = {}
    /\ finished = {}
    /\ fs = {Dest, pathjoin(Dest, <<"a",".","t","a","b","l","e">>), <<"d","/","b","i","n">>}
    /\ state \in [no_eups : BOOLEAN, traceback : {FALSE}]
    /\ walk = {}

\* env.InstallLSST(prefix, dirs, ignoreRegex), with upsDir the files in ./ups
InstallLSST ==
    /\ pc = "idle"
    /\ \E e \in EupsEnvs, dirs \in DirLists(MaxDirs), ignoreRegex \in IgnoreRegexes,
          upsDir \in SUBSET UpsFileNames, clean \in BOOLEAN, haveEups \in BOOLEAN :
          /\ Distinct(dirs)
          /\ \E r \in {InstallLSSTResult(e, state.no_eups, PrefixDir, dirs, ignoreRegex,
                                          upsDir, clean, haveEups, fs)} :
                 /\ call' = [op |-> "InstallLSST", env |-> e, prefix |-> PrefixDir,
                             dirs |-> dirs, ignoreRegex |-> ignoreRegex, upsDir |-> upsDir,
                             clean |-> clean, haveEups |-> haveEups]
                 /\ env' = e
                 /\ ret' = r.ret
                 /\ graph' = r.graph
                 /\ log' = r.graph.log
                 /\ fs' = r.graph.fs
    /\ pc' = "done"
    /\ UNCHANGED <<running, finished, state, walk>>

NextLSST == InstallLSST

SpecLSST == InitLSST /\ [][NextLSST]_vars

(***************************************************************************)
(* Claims about InstallEups (SpecEups).                                    *)
(***************************************************************************)
\* InstallEups classified the candidates and registered their targets
Registered == pc = "registered" /\ call.env.installing /\ ~call.clean

FileLists == <<graph.buildFiles, graph.tableFiles, graph.eupspkgFiles, graph.miscFiles>>

\* C1: buildFiles, tableFiles, eupspkgFiles and miscFiles partition the
\* candidate files: pairwise disjoint, and their union is the candidate list.
C1_FourListsPartition ==
    Registered =>
        /\ graph.files = candidateFiles(call.files, call.upsDir)
        /\ UNION {FileLists[k] : k \in 1..4} = graph.files
        /\ \A j, k \in 1..4 : j # k => FileLists[j] \cap FileLists[k] = {}

\* the actions of target t run an expansion command
RunsExpansion(t) ==
    \/ t \in DOMAIN graph.postActions /\ graph.postActions[t] # {}
    \/ t = TableNode /\ graph.commands # {}

\* C8: every target with an expandbuild post-action, and the target of the
\* expandtable commands, has the side effect "eups"; so, started only when no
\* running target shares a side effect, no two targets that run an expansion
\* command are running at the same time.
C8_ExpansionsSerialized ==
    pc = "registered" =>
        /\ \A t \in graph.targets :
              RunsExpansion(t) => <<EupsMarker, t>> \in graph.sideEffects
        /\ \A t, u \in running :
              (t # u /\ RunsExpansion(t)) => ~RunsExpansion(u)

\* an expansion runs beside a plain copy while another expansion, with nothing
\* left to wait for but the side effect, is held back
C8_Witness ==
    /\ Registered
    /\ \E t, u \in running : t # u /\ RunsExpansion(t) /\ ~RunsExpansion(u)
    /\ \E w \in graph.targets \ (running \cup finished) :
          /\ RunsExpansion(w)
          /\ \A d \in graph.depends : d[1] = w => d[2] \in finished

\* the targets env.Install gave the build templates
BuildTargets == Install(call.dest, graph.buildFiles)

\* C11: each installed build-template target has exactly one expandbuild
\* post-action, and that action's command names the target's own file: no
\* target has the expansion command of another build template.
C11_OwnExpansionOnly ==
    Registered =>
        \A t \in BuildTargets :
            /\ Cardinality(graph.postActions[t]) = 1
            /\ \A a \in graph.postActions[t] : a.tool = "expandbuild" /\ a.file = t

(***************************************************************************)
(* Claims about InstallLSST (SpecLSST).                                    *)
(***************************************************************************)
\* C12: InstallLSST, installing and given no ignoreRegex, ends without an
\* error, and for every listed directory other than "ups" (and for "ups" when
\* no_eups is set) it has called InstallDir and holds, in the alias "install",
\* the target InstallDir(prefix, d) makes with the default ignoreRegex.
C12_DefaultPattern ==
    (pc = "done" /\ call.op = "InstallLSST" /\ call.env.installing
        /\ call.ignoreRegex = None) =>
        /\ ret.kind = "return"
        /\ \A k \in 1..Len(call.dirs) :
              (call.dirs[k] # Ups \/ state.no_eups) =>
                  LET r == InstallDirResult(call.env, call.prefix, call.dirs[k],
                                            DefaultIgnoreRegex, TRUE)
                  IN  /\ \E j \in 1..Len(graph.calls) :
                            graph.calls[j] = [to |-> "InstallDir", dir |-> call.dirs[k]]
                      /\ [target |-> r.target, action |-> r.action] \in graph.dirActions
                      /\ r.target \in graph.alias

(***************************************************************************)
(* Claims about InstallDir (SpecDir).                                      *)
(***************************************************************************)
\* the action of the target InstallDir registered has run to its end
Installed == pc = "done" /\ call.op = "InstallDir" /\ graph.alwaysBuild

\* C9: below the installed directory the destination holds no name that
\* matches ignoreRegex: no such file was copied, no such directory was created
\* and none was descended into.
C9_IgnoredOmitted ==
    Installed =>
        \A q \in fs : \A k \in 3..Len(q) : ~search(compile(call.ignoreRegex), q[k])

(***************************************************************************)
(* Claims about runExternal (SpecRun).                                     *)
(***************************************************************************)
\* C10: when the command ends with a nonzero status, runExternal with fatal
\* raises a RuntimeError whose message ends with the captured stderr, and
\* without fatal it logs a warning and returns.
C10_NonzeroStatus ==
    (pc = "done" /\ call.op = "runExternal" /\ call.process.started
        /\ call.process.status # 0) =>
        IF call.fatal
        THEN /\ ret.kind = "raise"
             /\ ret.value = <<"RuntimeError">>
             /\ endswith(ret.message, call.process.stderr)
        ELSE /\ ret.kind = "return"
             /\ \E i \in 1..Len(log) : log[i].level = "warn"

(***************************************************************************)
(* Claims about version and prefix resolution (SpecPrefix).                *)
(***************************************************************************)
SetPrefixDone == pc = "done" /\ call.op = "setPrefix"
DetermineVersionDone == pc = "done" /\ call.op = "determineVersion"

\* r is u with every "/" replaced by "_"
Slashless(u, r) ==
    /\ Len(r) = Len(u)
    /\ \A i \in 1..Len(u) : r[i] = IF u[i] = "/" THEN "_" ELSE u[i]

HasSlash(s) == \E i \in 1..Len(s) : s[i] = "/"
HasPercent(s) == \E i \in 1..Len(s) : s[i] = "%"

\* the call asked a backend for the version and the query raised
BackendRaised ==
    /\ ~Has(call.env, "version")
    /\ lower(call.versionString) \in {Git, Hg, Mercurial}
    /\ call.backend.kind = "raise"

\* the version error ended the call
FatalVersionError ==
    BackendRaised /\ (call.env.installing \/ call.env.declaring) /\ ~call.env.force

Warned == \E i \in 1..Len(log) : log[i].level = "warn"
FailedWith(what) == \E i \in 1..Len(log) : log[i] = Message("fail", what)
FailOutcome == IF state.traceback THEN Raise("RuntimeError") ELSE Exit("1")

\* the registry root is env['eupsPath'], no template given, no explicit prefix
RootFromEupsPath ==
    /\ SetPrefixDone
    /\ ~state.no_eups
    /\ ~Truthy(call.eupsProductPath)
    /\ HasTruthy(call.env, "eupsPath")
    /\ ~Has(call.env, "prefix")
    /\ ~FatalVersionError

ProductPathOf(e) ==
    IF HasTruthy(e, "eupsProductPath") THEN e.items["eupsProductPath"]
    ELSE e.items["eupsProduct"]

\* C2: with the registry enabled, no template and no explicit prefix, a registry
\* root that ends with "/<flavor>" is returned as it is, and any other root is
\* returned as root/flavor/(eupsProductPath or product)/version.
C2_RootIsPrefix ==
    RootFromEupsPath =>
        LET root == call.env.items["eupsPath"]
        IN  IF endswith(root, <<"/">> \o call.env.items["eupsFlavor"])
            THEN ret = Return(root)
            ELSE ret = Return(root \o <<"/">> \o call.env.items["eupsFlavor"] \o <<"/">>
                              \o ProductPathOf(call.env) \o <<"/">> \o env.items["version"])

\* C3 as stated: when the backend query raises, the error is fatal without force
\* while installing or declaring, and with force the version falls back to
\* "unknown", a warning is logged and setPrefix goes on.
C3_ForceWarns ==
    (SetPrefixDone /\ BackendRaised) =>
        /\ FatalVersionError =>
              FailedWith("Found problem with version number") /\ ret = FailOutcome
        /\ call.env.force =>
              /\ env.items["version"] = Unknown
              /\ Warned
              /\ ~FailedWith("Found problem with version number")

\* C3 as amended: when the backend query raises, the error is fatal without force
\* while installing or declaring (state.log.fail ends the call), and with force
\* the version falls back to "unknown", no warning is logged and setPrefix goes
\* on to the prefix (which it returns when the registry is disabled).
C3_ForceSilent ==
    (SetPrefixDone /\ BackendRaised) =>
        /\ env.items["version"] = Unknown
        /\ FatalVersionError =>
              /\ log = <<Message("fail", "Found problem with version number")>>
              /\ ret = FailOutcome
        /\ call.env.force =>
              /\ ~Warned
              /\ ~FailedWith("Found problem with version number")
              /\ state.no_eups => ret.kind = "return"

C3_Witness ==
    /\ SetPrefixDone /\ BackendRaised /\ call.env.force /\ call.env.installing
    /\ env.items["version"] = Unknown
    /\ ret.kind = "return"
    /\ log = <<>>

\* C4 as stated: determineVersion returns a configured version character for
\* character.
C4_ExplicitUnchanged ==
    (DetermineVersionDone /\ Has(call.env, "version")) =>
        ret = Return(call.env.items["version"])

\* C4 as amended: determineVersion returns a configured version with every "/"
\* replaced by "_", whatever versionString is: unchanged exactly when it holds
\* no "/".
C4_ExplicitSlashless ==
    (DetermineVersionDone /\ Has(call.env, "version")) =>
        /\ ret.kind = "return"
        /\ Slashless(call.env.items["version"], ret.value)
        /\ (ret.value = call.env.items["version"]) <=> ~HasSlash(call.env.items["version"])

C4_Witness ==
    /\ DetermineVersionDone
    /\ Has(call.env, "version") /\ HasSlash(call.env.items["version"])
    /\ Truthy(call.versionString)
    /\ ret.kind = "return" /\ ret.value # call.env.items["version"]

\* the version the resolution rests on, before the replace: the configured one,
\* or what the backend gave
Underlying ==
    IF Has(call.env, "version") THEN call.env.items["version"]
    ELSE IF lower(call.versionString) \in {Git, Hg, Mercurial} /\ call.backend.kind = "return"
         THEN call.backend.value
    ELSE None

\* C5: a resolved version holds no "/": what determineVersion returns, and
\* env['version'] after setPrefix (also when resolution raised), is the
\* underlying version with every "/" replaced by "_", and replacing again
\* changes nothing.
C5_VersionSlashFree ==
    /\ (DetermineVersionDone /\ ret.kind = "return") =>
          /\ ~HasSlash(ret.value)
          /\ replace(ret.value, "/", "_") = ret.value
          /\ Underlying # None => Slashless(Underlying, ret.value)
    /\ SetPrefixDone =>
          /\ Has(env, "version")
          /\ ~HasSlash(env.items["version"])
          /\ replace(env.items["version"], "/", "_") = env.items["version"]
          /\ Underlying # None => Slashless(Underlying, env.items["version"])
          /\ BackendRaised => env.items["version"] = Unknown

C5_Witness ==
    /\ SetPrefixDone
    /\ Has(call.env, "version") /\ HasSlash(call.env.items["version"])
    /\ ~HasSlash(env.items["version"])
    /\ ret.kind = "return"

\* the registry root setPrefix starts from, None when there is none
RegistryRoot ==
    IF Truthy(call.eupsProductPath)
    THEN LET made == makeProductPath(env, call.eupsProductPath)
         IN  IF made.kind = "return" THEN made.value ELSE None
    ELSE IF HasTruthy(call.env, "eupsPath") THEN call.env.items["eupsPath"]
    ELSE None

\* an explicit prefix and a registry-derived prefix are both present and differ
PrefixesDiffer ==
    /\ SetPrefixDone
    /\ ~state.no_eups
    /\ ~FatalVersionError
    /\ Has(call.env, "prefix")
    /\ RegistryRoot # None
    /\ Truthy(derivedPrefix(env, RegistryRoot))
    /\ derivedPrefix(env, RegistryRoot) # call.env.items["prefix"]

\* C6 as stated: when an explicit prefix and a derived registry prefix differ,
\* the explicit prefix is returned and a warning is emitted, for every resolved
\* version, "unknown" too.
C6_ExplicitPrefixWarns ==
    PrefixesDiffer => ret = Return(call.env.items["prefix"]) /\ Warned

\* C6 as amended: when an explicit prefix and a derived registry prefix differ,
\* the explicit prefix is the one used: returned as it is when it holds no "%",
\* and otherwise as makeProductPath expands it (a malformed template raises);
\* the warning is emitted exactly when the resolved version is not "unknown".
C6_ExplicitPrefixWarnsKnownVersion ==
    PrefixesDiffer =>
        /\ ~HasPercent(call.env.items["prefix"]) => ret = Return(call.env.items["prefix"])
        /\ ret = makeProductPath(env, call.env.items["prefix"])
        /\ Warned <=> env.items["version"] # Unknown
        /\ Warned => log = <<Message("warn", "Ignoring prefix")>>

C6_Witness ==
    /\ PrefixesDiffer
    /\ Truthy(call.env.items["prefix"])
    /\ env.items["version"] = Unknown
    /\ ret = Return(call.env.items["prefix"])
    /\ log = <<>>

NoEupsResult ==
    IF HasTruthy(call.env, "prefix") THEN call.env.items["prefix"] ELSE UsrLocal

\* C7 as stated: with the registry disabled setPrefix returns env['prefix'] when
\* it is set and non-empty and "/usr/local" otherwise, whatever the other inputs.
C7_NoEupsAlwaysReturns ==
    (SetPrefixDone /\ state.no_eups) => ret = Return(NoEupsResult)

\* C7 as amended: with the registry disabled setPrefix returns env['prefix'] when
\* it is set and non-empty and "/usr/local" otherwise, whatever the other inputs,
\* unless version resolution raises while installing or declaring without force:
\* then state.log.fail ends the call and no prefix is returned.
C7_NoEupsReturnsUnlessFatal ==
    (SetPrefixDone /\ state.no_eups) =>
        IF FatalVersionError THEN ret = FailOutcome ELSE ret = Return(NoEupsResult)

C7_Witness ==
    /\ SetPrefixDone /\ state.no_eups
    /\ Has(call.env, "prefix") /\ call.env.items["prefix"] = <<>>
    /\ Truthy(call.eupsProductPath)
    /\ ret = Return(UsrLocal)

====
